---- MODULE Spec2Model ----
(***************************************************************************)
(* Model of plugin_server/py/plugin_server.py: the lifecycle of the gRPC   *)
(* server that hosts the Python Tsunami plugins.                           *)
(*                                                                         *)
(* The main thread walks main() statement by statement (pc).  Plugin       *)
(* discovery (_import_py_plugins), registry construction                   *)
(* (_configure_plugin_service), health registration and announcement,      *)
(* SIGTERM delivery, the RPC worker pools and the drain (server.stop(3))   *)
(* are actions.  Library behaviour the code relies on is modelled as the   *)
(* library documents it and is named where it is used.                     *)
(***************************************************************************)
EXTENDS Integers, Sequences, FiniteSets, TLC

(***************************************************************************)
(* Bounds of the model.                                                    *)
(***************************************************************************)
MaxModules == 2      \* modules and sub-packages under py_plugins
MaxTypes == 2        \* detector types below tsunami_plugin.VulnDetector
MaxNames == 2        \* distinct descriptor names
THREADS == 2         \* --threads, the value of _THREADS
MaxSignals == 2      \* SIGTERMs delivered to the process

(***************************************************************************)
(* Program constants.                                                      *)
(***************************************************************************)
GRACE_SEC == 3       \* server.stop(3)
VulnDetector == 0    \* tsunami_plugin.VulnDetector, parent of its direct subclasses
RootPkg == 0         \* the package py_plugins

PLUGIN_SERVICE == "tsunami.PluginService"
REFLECTION_SERVICE == "grpc.reflection.v1alpha.ServerReflection"
HEALTH_SERVICE == "grpc.health.v1.Health"

VARIABLES
  pc,                \* statement of main() the main thread is at
  tree,              \* the package tree under py_plugins (input)
  types,             \* the detector types the modules define (input)
  stack,             \* call stack of _import_py_plugins
  import_log,        \* modules whose body has run, in order
  sys_modules,       \* sys.modules: the names the modules are cached under
  plugins,           \* the list built at lines 151-154
  servicer_plugins,  \* py_plugins handed to PluginServiceServicer
  attached,          \* services whose handlers are attached to the server
  health_servicer,   \* TRUE once the HealthServicer object exists
  server_status,     \* HealthServicer._server_status
  bound,             \* add_insecure_port has returned
  stage,             \* the grpc server's stage
  handler_installed, \* signal.signal(SIGTERM, on_sigterm) has run
  sig_term_received, \* the flag of the threading.Event
  wait_at,           \* where the main thread is inside sig_term_received.wait()
  on_sigterm_at,     \* where each on_sigterm that has started and not
                     \* returned is, the innermost last
  stop_calls,        \* how often server.stop has been called
  drain_elapsed,     \* time units since server.stop(3)
  calls,             \* RPCs the server has accepted, by arrival order
  signals,           \* SIGTERMs delivered so far
  startup_error      \* an import, a constructor or GetPluginDefinition
                     \* has raised during startup

vars == <<pc, tree, wait_at, on_sigterm_at, types, stack, import_log, sys_modules, plugins, servicer_plugins, attached,
          health_servicer, server_status, bound, stage, handler_installed,
          sig_term_received, stop_calls, drain_elapsed, calls, signals,
          startup_error>>

(***************************************************************************)
(* Inputs: the package tree and the detector types.                        *)
(*                                                                         *)
(* A tree of n modules: parent[m] is RootPkg or an earlier sub-package,    *)
(* is_pkg[m] tells a sub-package from a leaf module.  pkgutil lists the    *)
(* children of a package in a fixed order, here by module number.          *)
(*                                                                         *)
(* walk_packages is called without a prefix, so after it has yielded a     *)
(* sub-package it imports that sub-package by its bare name.  bare[m] is   *)
(* what sys.path holds under the bare name of sub-package m:               *)
(*   "absent"   nothing: the ImportError is swallowed;                     *)
(*   "same"     the sub-package itself (its parent directory is on         *)
(*              sys.path): its body runs again under the bare name and     *)
(*              its modules are listed again;                              *)
(*   "foreign"  another package with a module of its own, which is listed  *)
(*              as if it were under the sub-package.                       *)
(***************************************************************************)
BareNames == {"absent", "same", "foreign"}

TreesOf(n) ==
  { t \in [parent : [1..n -> 0..n], is_pkg : [1..n -> BOOLEAN],
           bare : [1..n -> BareNames]] :
      \A m \in 1..n : /\ \/ t.parent[m] = RootPkg
                         \/ t.parent[m] < m /\ t.is_pkg[t.parent[m]]
                      /\ ~t.is_pkg[m] => t.bare[m] = "absent" }

Trees == UNION { TreesOf(n) : n \in 0..MaxModules }

(***************************************************************************)
(* A type table of n detector types in definition order: parent is         *)
(* VulnDetector or an earlier type, name is the descriptor name, capable   *)
(* says whether the type declares the detector capability.                 *)
(***************************************************************************)
TypeTablesOf(n) ==
  { tt \in [1..n -> [parent : 0..n, name : 1..MaxNames, capable : BOOLEAN]] :
      \A t \in 1..n : tt[t].parent < t }

TypeTables == UNION { TypeTablesOf(n) : n \in 0..MaxTypes }

(***************************************************************************)
(* main(), lines 72-104, as the order of its statements.  A label names    *)
(* the statement the main thread executes next.                            *)
(***************************************************************************)
\* An order that announces SERVING before the listener is bound and started.
main_announce_first ==
  << "import_module", "import_py_plugins", "grpc_server",
     "configure_plugin_service", "register_health_service",
     "set_health_service_to_serving", "add_insecure_port", "start",
     "signal", "wait", "stop", "stop_wait", "return" >>

\* An order that builds the plugins only after the server has started.
main_lazy_plugins ==
  << "import_module", "import_py_plugins", "grpc_server",
     "register_health_service", "add_insecure_port", "start",
     "configure_plugin_service", "set_health_service_to_serving",
     "signal", "wait", "stop", "stop_wait", "return" >>

main_body ==
  << "import_module", "import_py_plugins", "grpc_server",
     "configure_plugin_service", "register_health_service",
     "add_insecure_port", "start", "set_health_service_to_serving",
     "signal", "wait", "stop", "stop_wait", "return" >>

IndexOf(label) == CHOOSE i \in 1..Len(main_body) : main_body[i] = label

\* The statement after `label`; after the last one main has returned.
After(label) ==
  IF IndexOf(label) = Len(main_body) THEN "returned"
  ELSE main_body[IndexOf(label) + 1]

\* The process is gone: main raised, the interpreter exited, or SIGTERM
\* killed it.
Terminated == pc \in {"aborted", "exited", "killed"}

(***************************************************************************)
(* Services: the tuple built at lines 177-179.                             *)
(***************************************************************************)
services == << PLUGIN_SERVICE, REFLECTION_SERVICE, HEALTH_SERVICE >>

Advertised == { services[i] : i \in 1..Len(services) }

\* HealthServicer keeps the overall status under the empty service name.
StatusKeys == Advertised \cup {""}

(***************************************************************************)
(* Plugin discovery, lines 107-115.                                        *)
(***************************************************************************)
NumModules == Len(tree.parent)

\* pkgutil.iter_modules(path): the modules directly under pkg.
iter_modules(pkg) ==
  SelectSeq([m \in 1..NumModules |-> m], LAMBDA m : tree.parent[m] = pkg)

\* The name a module is cached under in sys.modules: anchor 0 is the full
\* name py_plugins. ... .mod, anchor a > 0 is the name that starts at the
\* bare name of sub-package a.
ModuleName(anchor, mod) == << anchor, mod >>

\* What the generator does for the modules `kids`, in order, when it lists
\* them under the prefix of `anchor` (0: no prefix).  For each module: it
\* yields the module ("module"); for a sub-package it then imports the
\* prefixed name ("bare") and, when that gives a package, goes through that
\* package's modules with the longer prefix.  A name under a prefix is
\* found wherever the prefix was found.  A "phantom" is the yielded module
\* of a foreign package.  skip counts the steps that depend on the bare
\* import.
RECURSIVE walk(_, _)
walk(kids, anchor) ==
  IF kids = << >> THEN << >>
  ELSE LET m == Head(kids)
           found == IF ~tree.is_pkg[m] THEN "absent"
                    ELSE IF anchor # 0 THEN "same"
                    ELSE tree.bare[m]
           under == IF anchor # 0 THEN anchor ELSE m
           entry(kind, skip) ==
             [kind |-> kind, mod |-> m, anchor |-> under, found |-> found,
              skip |-> skip]
           nested == IF found = "same" THEN walk(iter_modules(m), under)
                     ELSE IF found = "foreign" THEN << entry("phantom", 0) >>
                     ELSE << >>
           below == IF found = "absent" THEN << >>
                    ELSE << entry("bare", Len(nested)) >> \o nested
       IN << [kind |-> "module", mod |-> m, anchor |-> anchor,
              found |-> found, skip |-> 0] >>
            \o below \o walk(Tail(kids), anchor)

\* pkgutil.walk_packages(pkg.__path__): the steps of the generator the
\* loop at line 109 runs over.
walk_packages(pkg) == walk(iter_modules(pkg), 0)

\* The next step of the innermost loop.
Step == stack[Len(stack)].idx + 1

\* The stack once the innermost loop has done its current step, and once it
\* has also called itself for sub-package m (line 113).
Stepped == [stack EXCEPT ![Len(stack)].idx = @ + 1]

Descended(m) == Append(Stepped, [pkg |-> m, idx |-> 0])

\* The generator resumes after a sub-package: __import__ of the name the
\* sub-package has under the prefix.  sys.modules answers for a name it
\* holds.  Otherwise the body of what was found runs: when it raises
\* ImportError the generator swallows it, lists nothing below the name and
\* the loop goes on; any other exception leaves the generator, the loop
\* and main.
bare_import(e) ==
  IF ModuleName(e.anchor, e.mod) \in sys_modules
  THEN /\ stack' = Stepped
       /\ UNCHANGED <<pc, import_log, sys_modules, startup_error>>
  ELSE \E outcome \in {"ok", "ImportError", "Exception"} :
         CASE outcome = "ok" ->
                /\ import_log' = IF e.found = "same"
                                 THEN Append(import_log, e.mod)
                                 ELSE import_log
                /\ sys_modules' =
                     sys_modules \cup {ModuleName(e.anchor, e.mod)}
                /\ stack' = Stepped
                /\ UNCHANGED <<pc, startup_error>>
           [] outcome = "ImportError" ->
                /\ startup_error' = TRUE
                /\ stack' = [stack EXCEPT ![Len(stack)].idx = @ + 1 + e.skip]
                /\ UNCHANGED <<pc, import_log, sys_modules>>
           [] outcome = "Exception" ->
                /\ startup_error' = TRUE
                /\ pc' = "aborted"
                /\ UNCHANGED <<stack, import_log, sys_modules>>

\* Line 111: importlib.import_module raises, and the exception leaves main.
import_failed(m) ==
  /\ startup_error' = TRUE
  /\ pc' = "aborted"
  /\ UNCHANGED <<stack, import_log, sys_modules>>

\* Lines 76-78: import the root package py_plugins.
ImportRoot ==
  /\ pc = "import_module"
  /\ \E ok \in BOOLEAN :
       IF ok
       THEN /\ pc' = After("import_module")
            /\ stack' = << [pkg |-> RootPkg, idx |-> 0] >>
            /\ UNCHANGED startup_error
       ELSE /\ pc' = "aborted"
            /\ startup_error' = TRUE
            /\ UNCHANGED stack
  /\ UNCHANGED <<tree, wait_at, on_sigterm_at, types, import_log, sys_modules, plugins, servicer_plugins, attached,
                 health_servicer, server_status, bound, stage, handler_installed,
                 sig_term_received, stop_calls, drain_elapsed, calls, signals>>

\* A loop that imported each listed module and never descended into a
\* sub-package.
ImportModule_flat ==
  /\ pc = "import_py_plugins"
  /\ stack # << >>
  /\ Step <= Len(walk_packages(stack[Len(stack)].pkg))
  /\ LET e == walk_packages(stack[Len(stack)].pkg)[Step]
         m == e.mod
         after == Stepped
     IN CASE e.kind = "module" /\ ModuleName(0, m) \in sys_modules ->
               /\ stack' = after
               /\ UNCHANGED <<pc, import_log, sys_modules, startup_error>>
          [] e.kind = "module" /\ ModuleName(0, m) \notin sys_modules ->
               \E ok \in BOOLEAN :
                 IF ok
                 THEN /\ import_log' = Append(import_log, m)
                      /\ sys_modules' = sys_modules \cup {ModuleName(0, m)}
                      /\ stack' = after
                      /\ UNCHANGED <<pc, startup_error>>
                 ELSE import_failed(m)
          [] e.kind = "bare" -> bare_import(e)
          [] e.kind = "phantom" -> import_failed(m)
  /\ UNCHANGED <<tree, wait_at, on_sigterm_at, types, plugins, servicer_plugins, attached,
                 health_servicer, server_status, bound, stage, handler_installed,
                 sig_term_received, stop_calls, drain_elapsed, calls, signals>>

\* Lines 109-115: one step of the loop of the innermost call.  A yielded
\* module is imported under its full name (line 111), which raises when the
\* module is new and its body raises, or when py_plugins has no such module
\* (a phantom); a sub-package is then walked by a call of its own (line
\* 113).  Between two yields the generator does its bare import.
ImportModule ==
  /\ pc = "import_py_plugins"
  /\ stack # << >>
  /\ Step <= Len(walk_packages(stack[Len(stack)].pkg))
  /\ LET e == walk_packages(stack[Len(stack)].pkg)[Step]
         m == e.mod
         after == IF tree.is_pkg[m] THEN Descended(m) ELSE Stepped
     IN CASE e.kind = "module" /\ ModuleName(0, m) \in sys_modules ->
               /\ stack' = after
               /\ UNCHANGED <<pc, import_log, sys_modules, startup_error>>
          [] e.kind = "module" /\ ModuleName(0, m) \notin sys_modules ->
               \E ok \in BOOLEAN :
                 IF ok
                 THEN /\ import_log' = Append(import_log, m)
                      /\ sys_modules' = sys_modules \cup {ModuleName(0, m)}
                      /\ stack' = after
                      /\ UNCHANGED <<pc, startup_error>>
                 ELSE import_failed(m)
          [] e.kind = "bare" -> bare_import(e)
          [] e.kind = "phantom" -> import_failed(m)
  /\ UNCHANGED <<tree, wait_at, on_sigterm_at, types, plugins, servicer_plugins, attached,
                 health_servicer, server_status, bound, stage, handler_installed,
                 sig_term_received, stop_calls, drain_elapsed, calls, signals>>

\* The loop of the innermost call is over: it returns to its caller, and the
\* outermost call returns to main.
ImportReturn ==
  /\ pc = "import_py_plugins"
  /\ stack # << >>
  /\ Step > Len(walk_packages(stack[Len(stack)].pkg))
  /\ stack' = SubSeq(stack, 1, Len(stack) - 1)
  /\ pc' = IF Len(stack) = 1 THEN After("import_py_plugins") ELSE pc
  /\ UNCHANGED <<tree, wait_at, on_sigterm_at, types, import_log, sys_modules, plugins, servicer_plugins, attached,
                 health_servicer, server_status, bound, stage, handler_installed,
                 sig_term_received, stop_calls, drain_elapsed, calls, signals,
                 startup_error>>

\* Line 82: grpc.server(ThreadPoolExecutor(max_workers=THREADS)).
GrpcServer ==
  /\ pc = "grpc_server"
  /\ stage' = "OPEN"
  /\ pc' = After("grpc_server")
  /\ UNCHANGED <<tree, wait_at, on_sigterm_at, types, stack, import_log, sys_modules, plugins, servicer_plugins,
                 attached, health_servicer, server_status, bound,
                 handler_installed, sig_term_received, stop_calls,
                 drain_elapsed, calls, signals, startup_error>>

(***************************************************************************)
(* Registry construction, lines 150-161.                                   *)
(***************************************************************************)
NumTypes == Len(types)

\* tsunami_plugin.VulnDetector.__subclasses__(): the types whose direct base
\* is VulnDetector, in definition order.
subclasses ==
  SelectSeq([t \in 1..NumTypes |-> t], LAMBDA t : types[t].parent = VulnDetector)

\* Lines 151-154: one step of the list comprehension, cls(http_client,
\* payload_generator); a constructor that raises ends main.
ConstructPlugin ==
  /\ pc = "configure_plugin_service"
  /\ Len(plugins) < Len(subclasses)
  /\ \E ok \in BOOLEAN :
       IF ok
       THEN /\ plugins' = Append(plugins, subclasses[Len(plugins) + 1])
            /\ UNCHANGED <<pc, startup_error>>
       ELSE /\ pc' = "aborted"
            /\ startup_error' = TRUE
            /\ UNCHANGED plugins
  /\ UNCHANGED <<tree, wait_at, on_sigterm_at, types, stack, import_log, sys_modules, servicer_plugins, attached,
                 health_servicer, server_status, bound, stage, handler_installed,
                 sig_term_received, stop_calls, drain_elapsed, calls, signals>>

\* Lines 155-161: log the name of every instance, which calls its
\* GetPluginDefinition(); then hand the list to PluginServiceServicer and
\* attach the servicer to the server.  When a GetPluginDefinition() raises
\* the exception leaves main: every plugin is built, no servicer is.
AddPluginServicer ==
  /\ pc = "configure_plugin_service"
  /\ Len(plugins) = Len(subclasses)
  /\ \E ok \in BOOLEAN :
       IF ok
       THEN /\ servicer_plugins' = << plugins >>
            /\ attached' = attached \cup {PLUGIN_SERVICE}
            /\ pc' = After("configure_plugin_service")
            /\ UNCHANGED startup_error
       ELSE /\ plugins # << >>
            /\ pc' = "aborted"
            /\ startup_error' = TRUE
            /\ UNCHANGED <<servicer_plugins, attached>>
  /\ UNCHANGED <<tree, wait_at, on_sigterm_at, types, stack, import_log, sys_modules, plugins, health_servicer,
                 server_status, bound, stage, handler_installed,
                 sig_term_received, stop_calls, drain_elapsed, calls, signals>>

(***************************************************************************)
(* Health service and listener, lines 85-91 and 164-183.                   *)
(***************************************************************************)
\* Lines 166-171: create the HealthServicer and attach it.  A new
\* HealthServicer reports the overall status "" as SERVING and knows no
\* other service.
RegisterHealthService ==
  /\ pc = "register_health_service"
  /\ health_servicer' = TRUE
  /\ server_status' = [server_status EXCEPT ![""] = "SERVING"]
  /\ attached' = attached \cup {HEALTH_SERVICE}
  /\ pc' = After("register_health_service")
  /\ UNCHANGED <<tree, wait_at, on_sigterm_at, types, stack, import_log, sys_modules, plugins, servicer_plugins,
                 bound, stage, handler_installed, sig_term_received, stop_calls,
                 drain_elapsed, calls, signals, startup_error>>

\* Line 86.
AddInsecurePort ==
  /\ pc = "add_insecure_port"
  /\ bound' = TRUE
  /\ pc' = After("add_insecure_port")
  /\ UNCHANGED <<tree, wait_at, on_sigterm_at, types, stack, import_log, sys_modules, plugins, servicer_plugins,
                 attached, health_servicer, server_status, stage,
                 handler_installed, sig_term_received, stop_calls,
                 drain_elapsed, calls, signals, startup_error>>

\* Line 88: from here on the server accepts calls.
Start ==
  /\ pc = "start"
  /\ stage' = "STARTED"
  /\ pc' = After("start")
  /\ UNCHANGED <<tree, wait_at, on_sigterm_at, types, stack, import_log, sys_modules, plugins, servicer_plugins,
                 attached, health_servicer, server_status, bound,
                 handler_installed, sig_term_received, stop_calls,
                 drain_elapsed, calls, signals, startup_error>>

\* The services the loop of lines 180-182 has not set yet.
NotYetServing ==
  { i \in 1..Len(services) : server_status[services[i]] # "SERVING" }

\* Lines 180-182: one iteration, health_servicer.set(service, SERVING).
SetServing ==
  /\ pc = "set_health_service_to_serving"
  /\ NotYetServing # {}
  /\ LET i == CHOOSE j \in NotYetServing : \A k \in NotYetServing : j <= k
     IN server_status' = [server_status EXCEPT ![services[i]] = "SERVING"]
  /\ UNCHANGED <<pc, tree, wait_at, on_sigterm_at, types, stack, import_log, sys_modules, plugins, servicer_plugins,
                 attached, health_servicer, bound, stage, handler_installed,
                 sig_term_received, stop_calls, drain_elapsed, calls, signals,
                 startup_error>>

\* Line 183: reflection.enable_server_reflection(services, server) attaches
\* the reflection service.
EnableServerReflection ==
  /\ pc = "set_health_service_to_serving"
  /\ NotYetServing = {}
  /\ attached' = attached \cup {REFLECTION_SERVICE}
  /\ pc' = After("set_health_service_to_serving")
  /\ UNCHANGED <<tree, wait_at, on_sigterm_at, types, stack, import_log, sys_modules, plugins, servicer_plugins,
                 health_servicer, server_status, bound, stage,
                 handler_installed, sig_term_received, stop_calls,
                 drain_elapsed, calls, signals, startup_error>>

\* Line 183: the names the reflection service advertises once it is enabled
\* are the tuple of lines 177-179.
Reflected == IF REFLECTION_SERVICE \in attached THEN Advertised ELSE {}

\* _set_health_service_to_serving has returned: startup is complete.
StartupComplete == Reflected # {}

(***************************************************************************)
(* Shutdown, lines 93-104.                                                 *)
(***************************************************************************)
\* Lines 94-100: create the Event and install on_sigterm.
InstallHandler ==
  /\ pc = "signal"
  /\ handler_installed' = TRUE
  /\ sig_term_received' = FALSE
  /\ pc' = After("signal")
  /\ UNCHANGED <<tree, wait_at, on_sigterm_at, types, stack, import_log, sys_modules, plugins, servicer_plugins,
                 attached, health_servicer, server_status, bound, stage,
                 stop_calls, drain_elapsed, calls, signals, startup_error>>

\* server.stop(grace): the first call moves a started server to GRACE, a
\* later call finds it stopping already.
server_stop ==
  /\ stop_calls' = stop_calls + 1
  /\ stage' = IF stage = "STARTED" THEN "GRACE" ELSE stage

(***************************************************************************)
(* The Event of line 94 is a flag guarded by a lock that is not reentrant  *)
(* (threading.Event: Condition(Lock())).  Two pieces of code take it, both *)
(* on the main thread: sig_term_received.wait() at line 101, and the       *)
(* sig_term_received.set() of on_sigterm at line 98, which runs between    *)
(* two instructions of whatever the main thread is doing.                  *)
(*                                                                         *)
(* wait_at: "out" (not inside wait), "locked" (lock taken, flag not yet    *)
(* read), "parked" (lock released, blocked until notified), "woken"        *)
(* (notified, lock taken again, not yet released).                         *)
(* on_sigterm_at: one position per handler that runs, the innermost last   *)
(* (a handler can interrupt a handler): "log" (line 97, before Event.set), *)
(* "locked" (inside Event.set with the lock, flag not yet written),        *)
(* "notify" (flag written, lock not yet released), "blocked" (waiting for  *)
(* the lock while the code it interrupted holds it: the main thread never  *)
(* runs that code again).                                                  *)
(***************************************************************************)
\* The lock of the Event is held.
EventLocked ==
  \/ wait_at \in {"locked", "woken"}
  \/ \E k \in 1..Len(on_sigterm_at) : on_sigterm_at[k] \in {"locked", "notify"}

\* The main thread executes main, not a signal handler.
InMain == on_sigterm_at = << >>

\* The innermost handler is at position p.
HandlerAt(p) ==
  on_sigterm_at # << >> /\ on_sigterm_at[Len(on_sigterm_at)] = p

\* The innermost handler moves on to position p.
HandlerTo(p) ==
  on_sigterm_at' = [on_sigterm_at EXCEPT ![Len(on_sigterm_at)] = p]

\* A handler waits for the lock for good, and the main thread with it.
Blocked ==
  \E k \in 1..Len(on_sigterm_at) : on_sigterm_at[k] = "blocked"

\* Line 98, inside Event.set with the lock taken: the handler writes the
\* flag and does nothing else.
on_sigterm ==
  /\ sig_term_received' = TRUE
  /\ UNCHANGED <<stop_calls, stage>>

\* A SIGTERM reaches the process.  Before line 100 the default disposition
\* terminates the process at once.  With on_sigterm installed the handler
\* starts on the main thread, on top of whatever that thread was doing
\* (main, or an earlier handler, also one that waits for the lock).
Sigterm ==
  /\ ~Terminated
  /\ signals < MaxSignals
  /\ signals' = signals + 1
  /\ IF handler_installed
     THEN /\ on_sigterm_at' = Append(on_sigterm_at, "log")
          /\ UNCHANGED pc
     ELSE pc' = "killed" /\ UNCHANGED on_sigterm_at
  /\ UNCHANGED <<tree, wait_at, types, stack, import_log, sys_modules, plugins,
                 servicer_plugins, attached, health_servicer, server_status,
                 bound, stage, handler_installed, sig_term_received, stop_calls,
                 drain_elapsed, calls, startup_error>>

\* Lines 97-98: the handler has logged and enters Event.set: it takes the
\* lock, or blocks for good when the code it interrupted (wait, or an
\* earlier on_sigterm) holds the lock.
EventAcquire ==
  /\ ~Terminated
  /\ HandlerAt("log")
  /\ HandlerTo(IF EventLocked THEN "blocked" ELSE "locked")
  /\ UNCHANGED <<pc, tree, wait_at, types, stack, import_log, sys_modules,
                 plugins, servicer_plugins, attached, health_servicer,
                 server_status, bound, stage, handler_installed,
                 sig_term_received, stop_calls, drain_elapsed, calls, signals,
                 startup_error>>

\* Line 98: Event.set writes the flag.
EventSet ==
  /\ ~Terminated
  /\ HandlerAt("locked")
  /\ on_sigterm
  /\ HandlerTo("notify")
  /\ UNCHANGED <<pc, tree, wait_at, types, stack, import_log, sys_modules,
                 plugins, servicer_plugins, attached, health_servicer,
                 server_status, bound, handler_installed, drain_elapsed, calls,
                 signals, startup_error>>

\* Line 98: Event.set notifies the waiter and releases the lock; on_sigterm
\* returns and the main thread resumes what the handler interrupted.
OnSigtermReturn ==
  /\ ~Terminated
  /\ HandlerAt("notify")
  /\ on_sigterm_at' = SubSeq(on_sigterm_at, 1, Len(on_sigterm_at) - 1)
  /\ UNCHANGED <<pc, tree, wait_at, types, stack, import_log, sys_modules,
                 plugins, servicer_plugins, attached, health_servicer,
                 server_status, bound, stage, handler_installed,
                 sig_term_received, stop_calls, drain_elapsed, calls, signals,
                 startup_error>>

\* Line 101: sig_term_received.wait() takes the lock of the Event.
WaitEnter ==
  /\ pc = "wait"
  /\ InMain
  /\ wait_at = "out"
  /\ wait_at' = "locked"
  /\ UNCHANGED <<pc, tree, on_sigterm_at, types, stack, import_log, sys_modules,
                 plugins, servicer_plugins, attached, health_servicer,
                 server_status, bound, stage, handler_installed,
                 sig_term_received, stop_calls, drain_elapsed, calls, signals,
                 startup_error>>

\* Line 101: with the lock taken wait() reads the flag: when it is set
\* wait() releases the lock and returns, else it releases the lock and
\* blocks until it is notified.
Wait ==
  /\ pc = "wait"
  /\ InMain
  /\ wait_at = "locked"
  /\ IF sig_term_received
     THEN wait_at' = "out" /\ pc' = After("wait")
     ELSE wait_at' = "parked" /\ UNCHANGED pc
  /\ UNCHANGED <<tree, on_sigterm_at, types, stack, import_log, sys_modules,
                 plugins, servicer_plugins, attached, health_servicer,
                 server_status, bound, stage, handler_installed,
                 sig_term_received, stop_calls, drain_elapsed, calls, signals,
                 startup_error>>

\* Line 101: notified, wait() takes the lock again.
WaitWoken ==
  /\ pc = "wait"
  /\ InMain
  /\ wait_at = "parked"
  /\ sig_term_received
  /\ wait_at' = "woken"
  /\ UNCHANGED <<pc, tree, on_sigterm_at, types, stack, import_log, sys_modules,
                 plugins, servicer_plugins, attached, health_servicer,
                 server_status, bound, stage, handler_installed,
                 sig_term_received, stop_calls, drain_elapsed, calls, signals,
                 startup_error>>

\* Line 101: wait() releases the lock and returns.
WaitReturn ==
  /\ pc = "wait"
  /\ InMain
  /\ wait_at = "woken"
  /\ wait_at' = "out"
  /\ pc' = After("wait")
  /\ UNCHANGED <<tree, on_sigterm_at, types, stack, import_log, sys_modules,
                 plugins, servicer_plugins, attached, health_servicer,
                 server_status, bound, stage, handler_installed,
                 sig_term_received, stop_calls, drain_elapsed, calls, signals,
                 startup_error>>

\* A shutdown that announced NOT_SERVING for every service before stopping.
Stop_announces_not_serving ==
  /\ pc = "stop"
  /\ InMain
  /\ server_stop
  /\ server_status' = [k \in StatusKeys |-> "NOT_SERVING"]
  /\ drain_elapsed' = 0
  /\ pc' = After("stop")
  /\ UNCHANGED <<tree, wait_at, on_sigterm_at, types, stack, import_log, sys_modules, plugins, servicer_plugins,
                 attached, health_servicer, bound, handler_installed,
                 sig_term_received, calls, signals, startup_error>>

\* Line 103: server.stop(3).
Stop ==
  /\ pc = "stop"
  /\ InMain
  /\ server_stop
  /\ drain_elapsed' = 0
  /\ pc' = After("stop")
  /\ UNCHANGED <<tree, wait_at, on_sigterm_at, types, stack, import_log, sys_modules, plugins, servicer_plugins,
                 attached, health_servicer, server_status, bound,
                 handler_installed, sig_term_received, calls, signals,
                 startup_error>>

\* Line 103: .wait() on the event server.stop returned.
StopWait ==
  /\ pc = "stop_wait"
  /\ InMain
  /\ stage = "STOPPED"
  /\ pc' = After("stop_wait")
  /\ UNCHANGED <<tree, wait_at, on_sigterm_at, types, stack, import_log, sys_modules, plugins, servicer_plugins,
                 attached, health_servicer, server_status, bound, stage,
                 handler_installed, sig_term_received, stop_calls,
                 drain_elapsed, calls, signals, startup_error>>

\* Line 104: the last statement; main returns.
Return ==
  /\ pc = "return"
  /\ InMain
  /\ pc' = After("return")
  /\ UNCHANGED <<tree, wait_at, on_sigterm_at, types, stack, import_log, sys_modules, plugins, servicer_plugins,
                 attached, health_servicer, server_status, bound, stage,
                 handler_installed, sig_term_received, stop_calls,
                 drain_elapsed, calls, signals, startup_error>>

(***************************************************************************)
(* RPC calls and the worker pools, lines 82 and 166-169.                   *)
(*                                                                         *)
(* A call is [kind, state, work, returns, outcome]: kind is "scan" (a call *)
(* of the plugin service), "check" (Health.Check) or "watch"               *)
(* (Health.Watch); state is "queued" (submitted to a pool), "running" (on  *)
(* a worker thread), "streaming" (a Watch whose handler has returned and   *)
(* whose stream is open) or "finished"; work is the time its handler still *)
(* needs and returns is FALSE for a handler that never returns; outcome is *)
(* how the call has ended for its caller: "none" (it has not: the call is  *)
(* in flight), "result", "client_error" or "cancelled"; name is the        *)
(* detector a scan call asks for (no detector for a health call).          *)
(***************************************************************************)
NumCalls == THREADS + 1

Kinds == {"scan", "check", "watch"}

\* A scan handler sleeps one time unit, or outlives the grace period.
ScanWork == {1, GRACE_SEC + 1}

\* The service a call of this kind belongs to.
ServiceOf(kind) == IF kind = "scan" THEN PLUGIN_SERVICE ELSE HEALTH_SERVICE

\* PluginServiceServicer looks the requested detector up by descriptor name
\* in the py_plugins it was given at line 159.
Known(name) ==
  /\ servicer_plugins # << >>
  /\ \E i \in 1..Len(servicer_plugins[1]) : types[servicer_plugins[1][i]].name = name

UnknownDetector(c) == c.kind = "scan" /\ ~Known(c.name)

\* What a handler that returns gives its caller: a client error for a
\* detector that is not in the PluginSet, else the result.
Reply(c) == IF UnknownDetector(c) THEN "client_error" ELSE "result"

\* What the handler of a "run detector" call does on its worker: it looks
\* the name up; with no such detector it invokes nothing and answers at
\* once, else it runs the detector's scan, which takes its time or never
\* returns.
run_detector(name) ==
  IF Known(name)
  THEN [returns : {TRUE}, work : ScanWork] \cup {[returns |-> FALSE, work |-> 1]}
  ELSE {[returns |-> TRUE, work |-> 0]}

\* What the handler of a call does on its worker.  The handlers of the
\* health service answer from the table of lines 166 and 181.
handler(kind, name) ==
  IF kind = "scan" THEN run_detector(name)
  ELSE {[returns |-> TRUE, work |-> 0]}

\* The pool a call is submitted to.  The server runs a handler on the pool
\* of line 82 unless the handler carries an experimental_thread_pool, and
\* HealthServicer puts the pool of lines 168-169 on Watch only.
select_thread_pool(kind) == IF kind = "watch" THEN "health" ELSE "server"

PoolOf(i) == select_thread_pool(calls[i].kind)

Running(pool) ==
  { i \in 1..Len(calls) : calls[i].state = "running" /\ PoolOf(i) = pool }

InFlight == { i \in 1..Len(calls) : calls[i].outcome = "none" }

\* ThreadPoolExecutor(max_workers=THREADS): the oldest queued item runs as
\* soon as fewer than THREADS workers are busy.
CanDispatch(i) ==
  /\ calls[i].state = "queued"
  /\ \A j \in 1..(i - 1) : ~(calls[j].state = "queued" /\ PoolOf(j) = PoolOf(i))
  /\ Cardinality(Running(PoolOf(i))) < THREADS

CanReturn(i) ==
  /\ calls[i].state = "running"
  /\ calls[i].returns
  /\ calls[i].work = 0

\* A server that went on accepting calls during the grace period.
Arrive_while_draining ==
  /\ ~Terminated
  /\ stage \in {"STARTED", "GRACE"}
  /\ bound
  /\ Len(calls) < NumCalls
  /\ \E kind \in Kinds, name \in 0..MaxNames :
       /\ ServiceOf(kind) \in attached
       /\ (kind = "scan") = (name # 0)
       /\ \E run \in handler(kind, name) :
            calls' = Append(calls, [kind |-> kind, name |-> name,
                                    state |-> "queued", work |-> run.work,
                                    returns |-> run.returns,
                                    outcome |-> "none"])
  /\ UNCHANGED <<pc, tree, wait_at, on_sigterm_at, types, stack, import_log, sys_modules, plugins, servicer_plugins,
                 attached, health_servicer, server_status, bound, stage,
                 handler_installed, sig_term_received, stop_calls,
                 drain_elapsed, signals, startup_error>>

\* A client's call reaches the started server and is submitted to its pool.
Arrive ==
  /\ ~Terminated
  /\ stage = "STARTED"
  /\ bound
  /\ Len(calls) < NumCalls
  /\ \E kind \in Kinds, name \in 0..MaxNames :
       /\ ServiceOf(kind) \in attached
       /\ (kind = "scan") = (name # 0)
       /\ \E run \in handler(kind, name) :
            calls' = Append(calls, [kind |-> kind, name |-> name,
                                    state |-> "queued", work |-> run.work,
                                    returns |-> run.returns,
                                    outcome |-> "none"])
  /\ UNCHANGED <<pc, tree, wait_at, on_sigterm_at, types, stack, import_log, sys_modules, plugins, servicer_plugins,
                 attached, health_servicer, server_status, bound, stage,
                 handler_installed, sig_term_received, stop_calls,
                 drain_elapsed, signals, startup_error>>

\* A free worker of the call's pool takes it.
Dispatch ==
  /\ ~Terminated
  /\ \E i \in 1..Len(calls) :
       /\ CanDispatch(i)
       /\ calls' = [calls EXCEPT ![i].state = "running"]
  /\ UNCHANGED <<pc, tree, wait_at, on_sigterm_at, types, stack, import_log, sys_modules, plugins, servicer_plugins,
                 attached, health_servicer, server_status, bound, stage,
                 handler_installed, sig_term_received, stop_calls,
                 drain_elapsed, signals, startup_error>>

\* Line 167, experimental_non_blocking=True: the handler of Watch registers
\* the stream with the HealthServicer and returns; the call goes on until
\* its client or the server ends it.
non_blocking(c) == c.kind = "watch"

\* A server that takes the scan service out of SERVING when one of its
\* calls ends in a client error.
HandlerReturn_degrades ==
  /\ ~Terminated
  /\ \E i \in 1..Len(calls) :
       /\ CanReturn(i)
       /\ calls' =
            IF non_blocking(calls[i]) /\ calls[i].outcome = "none"
            THEN [calls EXCEPT ![i].state = "streaming"]
            ELSE [calls EXCEPT
                    ![i].state = "finished",
                    ![i].outcome = IF @ = "none" THEN Reply(calls[i]) ELSE @]
       /\ server_status' =
            IF calls[i].outcome = "none" /\ Reply(calls[i]) = "client_error"
            THEN [server_status EXCEPT ![PLUGIN_SERVICE] = "NOT_SERVING"]
            ELSE server_status
  /\ UNCHANGED <<pc, tree, wait_at, on_sigterm_at, types, stack, import_log,
                 sys_modules, plugins, servicer_plugins, attached,
                 health_servicer, bound, stage, handler_installed,
                 sig_term_received, stop_calls, drain_elapsed, signals,
                 startup_error>>

\* The handler returns and its worker is free.  The caller of a unary call
\* gets the result unless the call was cancelled before; a Watch that was
\* not cancelled stays open.
HandlerReturn ==
  /\ ~Terminated
  /\ \E i \in 1..Len(calls) :
       /\ CanReturn(i)
       /\ calls' =
            IF non_blocking(calls[i]) /\ calls[i].outcome = "none"
            THEN [calls EXCEPT ![i].state = "streaming"]
            ELSE [calls EXCEPT
                    ![i].state = "finished",
                    ![i].outcome = IF @ = "none" THEN Reply(calls[i]) ELSE @]
  /\ UNCHANGED <<pc, tree, wait_at, on_sigterm_at, types, stack, import_log, sys_modules, plugins, servicer_plugins,
                 attached, health_servicer, server_status, bound, stage,
                 handler_installed, sig_term_received, stop_calls,
                 drain_elapsed, signals, startup_error>>

\* The client of an open Watch ends its stream.
StreamClosed ==
  /\ ~Terminated
  /\ \E i \in 1..Len(calls) :
       /\ calls[i].state = "streaming"
       /\ calls' = [calls EXCEPT ![i].state = "finished",
                                 ![i].outcome = "result"]
  /\ UNCHANGED <<pc, tree, wait_at, on_sigterm_at, types, stack, import_log,
                 sys_modules, plugins, servicer_plugins, attached,
                 health_servicer, server_status, bound, stage,
                 handler_installed, sig_term_received, stop_calls,
                 drain_elapsed, signals, startup_error>>

\* server.stop(None): no grace at all.
grace_none == TRUE

\* server.stop(3): the grace period is over.
grace_elapsed == drain_elapsed >= GRACE_SEC

\* The server stops: at once when no call is in flight, else when the grace
\* period is over, and then it cancels every call still in flight.  A
\* cancelled call that is queued never runs and an open stream is closed;
\* a call that runs keeps its worker thread until its handler returns.
ServerStopped ==
  /\ ~Terminated
  /\ stage = "GRACE"
  /\ InFlight = {} \/ grace_elapsed
  /\ stage' = "STOPPED"
  /\ calls' = [i \in 1..Len(calls) |->
                 IF i \in InFlight
                 THEN [calls[i] EXCEPT
                         !.outcome = "cancelled",
                         !.state = IF @ = "running" THEN @ ELSE "finished"]
                 ELSE calls[i]]
  /\ UNCHANGED <<pc, tree, wait_at, on_sigterm_at, types, stack, import_log, sys_modules, plugins, servicer_plugins,
                 attached, health_servicer, server_status, bound,
                 handler_installed, sig_term_received, stop_calls,
                 drain_elapsed, signals, startup_error>>

\* One time unit passes.  Steps that take no time come first: a handler
\* that is done returns, a free worker takes the next call, a server whose
\* grace period is over stops.
Tick ==
  /\ ~Terminated
  /\ \A i \in 1..Len(calls) : ~CanReturn(i) /\ ~CanDispatch(i)
  /\ ~(stage = "GRACE" /\ (InFlight = {} \/ grace_elapsed))
  /\ \/ stage = "GRACE"
     \/ \E i \in 1..Len(calls) :
          calls[i].state = "running" /\ calls[i].returns
  /\ calls' = [i \in 1..Len(calls) |->
                 IF calls[i].state = "running" /\ calls[i].returns
                 THEN [calls[i] EXCEPT !.work = @ - 1]
                 ELSE calls[i]]
  /\ drain_elapsed' = IF stage = "GRACE" THEN drain_elapsed + 1 ELSE drain_elapsed
  /\ UNCHANGED <<pc, tree, wait_at, on_sigterm_at, types, stack, import_log, sys_modules, plugins, servicer_plugins,
                 attached, health_servicer, server_status, bound, stage,
                 handler_installed, sig_term_received, stop_calls, signals,
                 startup_error>>

\* After main returns the interpreter exits, and on its way out it joins
\* the worker threads of every ThreadPoolExecutor: the process is gone once
\* no handler is running any more.
Exit ==
  /\ pc = "returned"
  /\ InMain
  /\ Running("server") = {}
  /\ Running("health") = {}
  /\ pc' = "exited"
  /\ UNCHANGED <<tree, wait_at, on_sigterm_at, types, stack, import_log, sys_modules, plugins, servicer_plugins,
                 attached, health_servicer, server_status, bound, stage,
                 handler_installed, sig_term_received, stop_calls,
                 drain_elapsed, calls, signals, startup_error>>

(***************************************************************************)
(* Specifications.                                                         *)
(***************************************************************************)
InitWith(trees, tables) ==
  /\ pc = main_body[1]
  /\ tree \in trees
  /\ types \in tables
  /\ stack = << >>
  /\ import_log = << >>
  /\ sys_modules = {}
  /\ plugins = << >>
  /\ servicer_plugins = << >>
  /\ attached = {}
  /\ health_servicer = FALSE
  /\ server_status = [k \in StatusKeys |-> "NOT_FOUND"]
  /\ bound = FALSE
  /\ stage = "NONE"
  /\ handler_installed = FALSE
  /\ sig_term_received = FALSE
  /\ wait_at = "out"
  /\ on_sigterm_at = << >>
  /\ stop_calls = 0
  /\ drain_elapsed = 0
  /\ calls = << >>
  /\ signals = 0
  /\ startup_error = FALSE

\* The main thread.
Main ==
  \/ ImportRoot \/ ImportModule \/ ImportReturn \/ GrpcServer
  \/ ConstructPlugin \/ AddPluginServicer \/ RegisterHealthService
  \/ AddInsecurePort \/ Start \/ SetServing \/ EnableServerReflection
  \/ InstallHandler \/ WaitEnter \/ Wait \/ WaitWoken \/ WaitReturn
  \/ EventAcquire \/ EventSet \/ OnSigtermReturn \/ Stop \/ StopWait \/ Return \/ Exit

\* The server's threads and its clients.
Serve ==
  Arrive \/ Dispatch \/ HandlerReturn \/ StreamClosed \/ ServerStopped \/ Tick

\* One package holding one module, and one detector type: the plugin set
\* of the runs that look at the server's life after startup.
OneModuleTree ==
  [parent |-> << RootPkg, 1 >>, is_pkg |-> << TRUE, FALSE >>,
   bare |-> << "absent", "absent" >>]

OneDetector ==
  << [parent |-> VulnDetector, name |-> 1, capable |-> TRUE] >>

Init == InitWith({OneModuleTree}, {OneDetector})

Next == Main \/ Serve \/ Sigterm

Spec == Init /\ [][Next]_vars

\* Startup over every package tree and type table of the bounds, with no
\* client calling: discovery, registry construction, and the way to exit.
InitStartup == InitWith(Trees, TypeTables)

NextStartup == Main \/ ServerStopped \/ Sigterm

SpecStartup == InitStartup /\ [][NextStartup]_vars

\* The main thread runs when it can, the workers and the server's own
\* threads run when they can, and time passes.  Clients and signals are
\* under no obligation.
Fairness ==
  /\ WF_vars(Main)
  /\ WF_vars(Dispatch)
  /\ WF_vars(HandlerReturn)
  /\ WF_vars(ServerStopped)
  /\ WF_vars(Tick)

FairSpec == Spec /\ Fairness

(***************************************************************************)
(* Properties.                                                             *)
(***************************************************************************)
Started == stage \in {"STARTED", "GRACE", "STOPPED"}

Listening == bound /\ stage = "STARTED"

Serving(s) == server_status[s] = "SERVING"

\* C1: no advertised service's health state is SERVING while the listener
\* has not been bound and started.
C1_NoServingBeforeListening ==
  \A s \in Advertised : Serving(s) => bound /\ Started

\* C1 witness: a health poll is in the server while a service is SERVING.
C1_Witness ==
  /\ Serving(PLUGIN_SERVICE)
  /\ Listening
  /\ \E i \in 1..Len(calls) : calls[i].kind = "check"

\* C2: a SIGTERM that arrives while the server is LISTENING never ends the
\* process without the drain (server.stop), and never leaves the main
\* thread unable to reach the drain.
C2_SigtermAlwaysDrains ==
  ~(Listening /\ stop_calls = 0 /\ (pc = "killed" \/ Blocked))

\* C3: once the ShutdownSignal has fired the process eventually exits, also
\* when a call is still running at the end of the grace period or never
\* returns.
C3_EventuallyStopped ==
  sig_term_received ~> (pc = "exited")

\* C4: the drain cancels no call before the grace period of 3 time units is
\* over, and a call whose handler returns while the server drains gets its
\* result to its caller (the client error, when it asked for a detector
\* that does not exist).
C4_DrainKeepsGrace ==
  /\ [](\A i \in 1..Len(calls) :
          calls[i].outcome = "cancelled" => stage = "STOPPED" /\ drain_elapsed = 3)
  /\ [][\A i \in 1..Len(calls) :
          (stage = "GRACE" /\ drain_elapsed < 3 /\ calls[i].state = "running"
             /\ calls'[i].state = "finished")
          => calls'[i].outcome =
               (IF UnknownDetector(calls[i]) THEN "client_error" ELSE "result")]_vars

\* C4 witness: the only call was in flight when the drain began, its
\* handler returned one time unit later, and its caller has the result.
C4_Witness ==
  /\ stage = "GRACE"
  /\ drain_elapsed = 1
  /\ Len(calls) = 1
  /\ calls[1].state = "finished"
  /\ calls[1].outcome = "result"

\* A handler waits for a lock that an earlier handler holds, or that the
\* wait an earlier handler has woken holds: a SIGTERM after the first has
\* blocked the main thread.
BlockedByRepeat ==
  \E k \in 1..Len(on_sigterm_at) :
    /\ on_sigterm_at[k] = "blocked"
    /\ \/ wait_at = "woken"
       \/ \E j \in 1..(k - 1) : on_sigterm_at[j] \in {"locked", "notify"}

\* C5: however many SIGTERMs arrive, server.stop is called at most once,
\* exactly once by the time main returns, and a SIGTERM after the first
\* changes no lifecycle state: its delivery moves neither main nor the
\* server, and its handler never takes from the main thread the ability to
\* run the shutdown logic.
C5_ShutdownOnce ==
  /\ [](stop_calls <= 1)
  /\ [](pc \in {"returned", "exited"} => stop_calls = 1)
  /\ [](~BlockedByRepeat)
  /\ [][(signals >= 1 /\ signals' = signals + 1)
          => UNCHANGED <<pc, stage, stop_calls, drain_elapsed, calls,
                         server_status, attached, bound,
                         sig_term_received>>]_vars

\* C6: after an import has failed during discovery or a detector
\* constructor has raised (or the logging of the plugin names has), the
\* process is gone: the listener is neither bound nor started and no
\* service is SERVING.
C6_StartupErrorIsFatal ==
  startup_error =>
    /\ pc = "aborted"
    /\ ~bound
    /\ ~Started
    /\ \A s \in Advertised : ~Serving(s)

\* Two instances of the list carry the same descriptor name.
DuplicateNames(ps) ==
  \E i, j \in 1..Len(ps) : i # j /\ types[ps[i]].name = types[ps[j]].name

\* C7: the PluginSet handed to the servicer never holds two instances of
\* the same name, and the server never starts with such a PluginSet.
C7_DuplicateNamesRejected ==
  (servicer_plugins # << >> \/ Started) => ~DuplicateNames(plugins)

\* C8: when every detector type declares the capability, the PluginSet
\* handed to the servicer holds exactly one instance per type.
C8_OneInstancePerType ==
  (servicer_plugins # << >> /\ \A t \in 1..NumTypes : types[t].capable) =>
    /\ Len(servicer_plugins[1]) = NumTypes
    /\ \A t \in 1..NumTypes :
         Cardinality({ i \in 1..Len(servicer_plugins[1]) :
                         servicer_plugins[1][i] = t }) = 1

\* C9: a health call that waits for a worker never finds every worker of
\* its pool busy with a scan call.
C9_HealthNotStarved ==
  \A i \in 1..Len(calls) :
    (calls[i].kind # "scan" /\ calls[i].state = "queued") =>
      Cardinality({ j \in Running(PoolOf(i)) : calls[j].kind = "scan" }) < THREADS

\* C10: the server accepts calls, or reports a service SERVING, only with
\* the scan, health and reflection services all attached.
C10_AttachedBeforeStart ==
  (stage = "STARTED" \/ \E s \in Advertised : Serving(s)) => attached = Advertised

\* C11: every advertised service is NOT_SERVING while the
\* listener is not bound, and once startup is complete every advertised
\* service is SERVING and the services reported SERVING are the ones
\* reflection advertises.
C11_NotServingThenServing ==
  /\ (health_servicer /\ ~bound) =>
       \A s \in Advertised : server_status[s] = "NOT_SERVING"
  /\ StartupComplete =>
       /\ \A s \in Advertised : Serving(s)
       /\ { s \in Advertised : Serving(s) } = Reflected

\* C12: a service that is SERVING is SERVING in the next state, whatever
\* step is taken: a call ending, a SIGTERM, the drain or the exit.
C12_ServingIsStable ==
  [][\A s \in StatusKeys : Serving(s) => server_status'[s] = "SERVING"]_vars

\* C12 witness: the process has exited after a drain that cancelled a call,
\* and every advertised service is still SERVING.
C12_Witness ==
  /\ pc = "exited"
  /\ stage = "STOPPED"
  /\ \E i \in 1..Len(calls) : calls[i].outcome = "cancelled"
  /\ \A s \in Advertised : Serving(s)

\* C13: once server.stop has been called the server accepts no new call,
\* and once it has stopped no call begins to execute: the calls that run
\* during the drain were accepted before it.
C13_NoNewCallsWhileDraining ==
  [][(stage = "GRACE" \/ stage = "STOPPED") =>
       ( /\ Len(calls') = Len(calls)
         /\ \A i \in 1..Len(calls) :
              (stage = "STOPPED" /\ calls[i].state # "running")
                => calls'[i].state # "running" )]_vars

\* C13 witness: the server has been draining for a time unit, a call
\* accepted before the drain is still running, and a further call could
\* have been sent.
C13_Witness ==
  /\ stage = "GRACE"
  /\ drain_elapsed >= 1
  /\ Len(calls) < NumCalls
  /\ \E i \in 1..Len(calls) : calls[i].state = "running"

Imported == { m \in 1..NumModules : ModuleName(0, m) \in sys_modules }

\* C15: _import_py_plugins returns to main only when every module and
\* sub-package of the tree has been imported, and main goes on (creates the
\* server) only then.
C15_ImportsEveryModule ==
  /\ [](stage # "NONE" => Imported = 1..NumModules)
  /\ [][(pc = "import_py_plugins" /\ pc' = After("import_py_plugins"))
          => Imported' = 1..NumModules]_vars

\* C15 witness: a module inside a sub-package has been imported and
\* discovery has returned.
C15_Witness ==
  /\ NumModules = 2
  /\ tree.is_pkg[1]
  /\ tree.parent[2] = 1
  /\ Imported = {1, 2}
  /\ stage = "OPEN"

\* C16: when the listener is bound or started every direct subclass has
\* been instantiated and handed to the servicer, and no step after that
\* constructs an instance or changes the PluginSet.
C16_EagerConstruction ==
  /\ []((bound \/ Started) =>
          /\ Len(plugins) = Len(subclasses)
          /\ servicer_plugins = << plugins >>)
  /\ [][(bound \/ Started) =>
          (plugins' = plugins /\ servicer_plugins' = servicer_plugins)]_vars

\* C16 witness: a scan call has been served by the plugin built at startup.
C16_Witness ==
  /\ Listening
  /\ Len(plugins) = 1
  /\ \E i \in 1..Len(calls) :
       calls[i].kind = "scan" /\ calls[i].outcome = "result"

====
